---- MODULE Spec2Model ----
(***************************************************************************)
(* Model of scripts/getKeys.mjs: the key-tree extraction, the intersection *)
(* and union of key trees, and the two reducers that fold them over the    *)
(* parsed contents of a list of JSON files.                                *)
(*                                                                         *)
(* A JavaScript value is a record tagged by t.  A plain object carries its *)
(* own enumerable properties in m (a function from key to value), an array *)
(* its elements in e, a string its characters in s.  A thrown TypeError is *)
(* the value TypeErr, a thrown Error('Array is empty.') the value          *)
(* EmptyErr; an operator that models a function returns the value the      *)
(* function returns or the error it throws.                                *)
(***************************************************************************)
EXTENDS Integers, Sequences, FiniteSets, TLC

VARIABLES files, op, pc, i, resultTree, outcome, reads, fn, args, ret

vars == <<files, op, pc, i, resultTree, outcome, reads, fn, args, ret>>

progVars == <<files, op, pc, i, resultTree, outcome, reads>>

callVars == <<fn, args, ret>>

(***************************************************************************)
(* JavaScript values                                                       *)
(***************************************************************************)
Null == [t |-> "null"]

Undefined == [t |-> "undefined"]

Num == [t |-> "number"]

Bool == [t |-> "boolean"]

Str(chars) == [t |-> "string", s |-> chars]

Arr(elems) == [t |-> "array", e |-> elems]

Obj(props) == [t |-> "object", m |-> props]

TypeErr == [t |-> "TypeError"]

EmptyErr == [t |-> "Error"]

EmptyObj == Obj(<<>>)

\* The property name of the array or string index at position n of a sequence.
IndexKey(n) ==
  CASE n = 1 -> "0"
    [] n = 2 -> "1"
    [] n = 3 -> "2"

\* isObject without its Array.isArray test.
isObjectNoArrayCheck(o) == o.t \in {"object", "array"}

\* typeof o === 'object' && !Array.isArray(o) && o !== null
isObject(o) == o.t = "object"

\* Object.keys(o) and Object.entries(o) throw a TypeError on null and undefined.
KeysThrow(o) == o.t \in {"null", "undefined"}

\* Object.keys(o): the own enumerable property names.  An array and a string
\* enumerate their indices, a number and a boolean nothing.
ObjectKeys(o) ==
  CASE o.t = "object" -> DOMAIN o.m
    [] o.t = "array" -> {IndexKey(n) : n \in DOMAIN o.e}
    [] o.t = "string" -> {IndexKey(n) : n \in DOMAIN o.s}
    [] OTHER -> {}

\* o[prop]: undefined when o has no such property; a string yields the
\* one-character string at the index.
Get(o, prop) ==
  CASE o.t = "object" ->
         IF prop \in DOMAIN o.m THEN o.m[prop] ELSE Undefined
    [] o.t = "array" ->
         IF \E n \in DOMAIN o.e : IndexKey(n) = prop
           THEN o.e[CHOOSE n \in DOMAIN o.e : IndexKey(n) = prop]
           ELSE Undefined
    [] o.t = "string" ->
         IF \E n \in DOMAIN o.s : IndexKey(n) = prop
           THEN Str(<<o.s[CHOOSE n \in DOMAIN o.s : IndexKey(n) = prop]>>)
           ELSE Undefined
    [] OTHER -> Undefined

\* A function's result when one of the sub-results it was building threw.
Built(props) ==
  IF \E k \in DOMAIN props : props[k] = TypeErr THEN TypeErr ELSE Obj(props)

(***************************************************************************)
(* enumerateKeyTree                                                        *)
(***************************************************************************)
RECURSIVE enumerateKeyTreeHelper(_)
enumerateKeyTreeHelper(o) ==
  IF KeysThrow(o) THEN TypeErr
  ELSE Built([key \in ObjectKeys(o) |->
                IF ~isObject(Get(o, key)) THEN Null
                ELSE enumerateKeyTreeHelper(Get(o, key))])

enumerateKeyTree(o) == enumerateKeyTreeHelper(o)

(***************************************************************************)
(* intersectKeys                                                           *)
(***************************************************************************)
RECURSIVE intersectKeysHelper(_, _)
intersectKeysHelper(first, second) ==
  IF KeysThrow(first) \/ KeysThrow(second) THEN TypeErr
  ELSE LET intersect == ObjectKeys(first) \cap ObjectKeys(second)
       IN Built([prop \in intersect |->
                   IF ~isObject(Get(first, prop)) THEN Null
                   ELSE intersectKeysHelper(Get(first, prop), Get(second, prop))])

intersectKeys(first, second) == intersectKeysHelper(first, second)

(***************************************************************************)
(* unionKeys                                                               *)
(***************************************************************************)
\* unionKeysHelper deciding the node by first alone, as intersectKeysHelper does.
RECURSIVE unionKeysHelperFirstOnly(_, _)
unionKeysHelperFirstOnly(first, second) ==
  IF KeysThrow(first) \/ KeysThrow(second) THEN TypeErr
  ELSE LET union == ObjectKeys(first) \cup ObjectKeys(second)
       IN Built([prop \in union |->
                   IF ~isObject(Get(first, prop)) THEN Null
                   ELSE unionKeysHelperFirstOnly(Get(first, prop),
                                                 Get(second, prop))])

\* unionKeysHelper without its recursion: every key is nulled.
unionKeysHelperFlat(first, second) ==
  IF KeysThrow(first) \/ KeysThrow(second) THEN TypeErr
  ELSE Obj([prop \in ObjectKeys(first) \cup ObjectKeys(second) |-> Null])

\* unionKeysHelper iterating the intersection of the two key sets.
RECURSIVE unionKeysHelperCommonKeys(_, _)
unionKeysHelperCommonKeys(first, second) ==
  IF KeysThrow(first) \/ KeysThrow(second) THEN TypeErr
  ELSE LET union == ObjectKeys(first) \cap ObjectKeys(second)
       IN Built([prop \in union |->
                   IF ~isObject(Get(first, prop)) \/ ~isObject(Get(second, prop))
                     THEN Null
                     ELSE unionKeysHelperCommonKeys(Get(first, prop),
                                                    Get(second, prop))])

RECURSIVE unionKeysHelper(_, _)
unionKeysHelper(first, second) ==
  IF KeysThrow(first) \/ KeysThrow(second) THEN TypeErr
  ELSE LET union == ObjectKeys(first) \cup ObjectKeys(second)
       IN Built([prop \in union |->
                   IF ~isObject(Get(first, prop)) \/ ~isObject(Get(second, prop))
                     THEN Null
                     ELSE unionKeysHelper(Get(first, prop), Get(second, prop))])

unionKeys(first, second) == unionKeysHelper(first, second)

\* The combining call of a reducer: line 72/76 or line 110/114.
Combine(o, first, second) ==
  IF o = "intersect" THEN intersectKeys(first, second)
  ELSE unionKeys(first, second)

(***************************************************************************)
(* The values the model draws its inputs from                              *)
(***************************************************************************)
MaxDocs == 3

Keys == {"x", "0"}

\* Every object with keys among ks and values among vals.
ObjectsOver(ks, vals) ==
  UNION {{Obj(f) : f \in [d -> vals]} : d \in SUBSET ks}

Text == Str(<<"s">>)

Nested == Obj([k \in {"x"} |-> Num])

Inner == ObjectsOver(Keys, {Null, Nested})

Members == {Null, Num, Text, Arr(<<Nested>>)} \cup Inner

\* The parsed contents of a response file: a JSON object.
Docs == ObjectsOver({"x"}, Members) \cup ObjectsOver(Keys, {Null, Nested})

Ops == {"intersect", "union"}

FileLists == UNION {[1..n -> Docs] : n \in 0..MaxDocs}

\* Key trees: objects whose values are null or key trees.
ShapeTrees == ObjectsOver(Keys, {Null} \cup ObjectsOver(Keys, {Null}))

Trees == ShapeTrees \cup Docs

Prims == {Null, Num, Bool, Text}

Arrays == {Arr(<<>>), Arr(<<Num>>), Arr(<<Nested>>), Arr(<<Num, Num, Nested>>)}

Level1 == ObjectsOver(Keys, {Null, Text, Nested, Arr(<<Nested>>)})

\* Any parsed JSON value: primitives, arrays and objects nested three deep.
JsonValues ==
  Prims \cup Arrays \cup ObjectsOver(Keys, Prims \cup Arrays \cup Level1)

(***************************************************************************)
(* findIntersectingKeys / findUnionKeys over the files of the list         *)
(***************************************************************************)
Init ==
  /\ files \in FileLists
  /\ op = "none"
  /\ pc = "idle"
  /\ i = 0
  /\ resultTree = Undefined
  /\ outcome = Undefined
  /\ reads = 0
  /\ fn = "none"
  /\ args = <<>>
  /\ ret = Undefined

\* The caller invokes findIntersectingKeys or findUnionKeys on the list.
\* The list is always an array (extractJsonFiles builds one), so the
\* Array.isArray test of lines 57-59 / 95-97 passes.
Call(o) ==
  /\ pc = "idle"
  /\ op' = o
  /\ pc' = "entry"
  /\ UNCHANGED <<files, i, resultTree, outcome, reads, callVars>>

\* The empty list answered with the empty tree instead of an error.
ThrowEmptyReturnsEmptyTree ==
  /\ pc = "entry"
  /\ Len(files) = 0
  /\ outcome' = EmptyObj
  /\ pc' = "done"
  /\ UNCHANGED <<files, op, i, resultTree, reads, callVars>>

\* Lines 61-62 / 99-100: the empty list throws before any file is read.
ThrowEmpty ==
  /\ pc = "entry"
  /\ Len(files) = 0
  /\ outcome' = EmptyErr
  /\ pc' = "thrown"
  /\ UNCHANGED <<files, op, i, resultTree, reads, callVars>>

\* The single file's parsed contents returned as they are.
SingleReturnsDocument ==
  /\ pc = "entry"
  /\ Len(files) = 1
  /\ reads' = reads + 1
  /\ outcome' = files[1]
  /\ pc' = "done"
  /\ UNCHANGED <<files, op, i, resultTree, callVars>>

\* Lines 63-66 / 101-104: one file is read and its key tree returned.
Single ==
  /\ pc = "entry"
  /\ Len(files) = 1
  /\ reads' = reads + 1
  /\ outcome' = enumerateKeyTree(files[1])
  /\ pc' = IF enumerateKeyTree(files[1]) = TypeErr THEN "thrown" ELSE "done"
  /\ UNCHANGED <<files, op, i, resultTree, callVars>>

\* Lines 68-72 / 106-110: the first two files are read and combined.
Seed ==
  /\ pc = "entry"
  /\ Len(files) >= 2
  /\ reads' = reads + 2
  /\ LET r == Combine(op, files[1], files[2])
     IN IF r = TypeErr
          THEN /\ outcome' = TypeErr
               /\ pc' = "thrown"
               /\ UNCHANGED <<i, resultTree>>
          ELSE /\ resultTree' = r
               /\ i' = 2
               /\ pc' = "loop"
               /\ UNCHANGED outcome
  /\ UNCHANGED <<files, op, callVars>>

\* Lines 73-77 / 111-115: the next file is read and folded into resultTree.
\* i is the loop's zero-based index; files is one-based.
Fold ==
  /\ pc = "loop"
  /\ i < Len(files)
  /\ reads' = reads + 1
  /\ LET r == Combine(op, resultTree, files[i + 1])
     IN IF r = TypeErr
          THEN /\ outcome' = TypeErr
               /\ pc' = "thrown"
               /\ UNCHANGED <<i, resultTree>>
          ELSE /\ resultTree' = r
               /\ i' = i + 1
               /\ UNCHANGED <<pc, outcome>>
  /\ UNCHANGED <<files, op, callVars>>

\* Line 78 / 116: the loop is over and resultTree is returned.
Return ==
  /\ pc = "loop"
  /\ i >= Len(files)
  /\ outcome' = resultTree
  /\ pc' = "done"
  /\ UNCHANGED <<files, op, i, resultTree, reads, callVars>>

Next ==
  \/ \E o \in Ops : Call(o)
  \/ ThrowEmpty
  \/ Single
  \/ Seed
  \/ Fold
  \/ Return

Spec == Init /\ [][Next]_vars

\* The value a reducer returns or the error it throws on a whole list
\* (lines 55-83 / 93-121 run to completion).
RECURSIVE FoldFrom(_, _, _, _)
FoldFrom(o, acc, list, n) ==
  IF n >= Len(list) THEN acc
  ELSE LET r == Combine(o, acc, list[n + 1])
       IN IF r = TypeErr THEN TypeErr ELSE FoldFrom(o, r, list, n + 1)

Reduce(o, list) ==
  IF Len(list) = 0 THEN EmptyErr
  ELSE IF Len(list) = 1 THEN enumerateKeyTree(list[1])
  ELSE LET r == Combine(o, list[1], list[2])
       IN IF r = TypeErr THEN TypeErr ELSE FoldFrom(o, r, list, 2)

\* The stepwise reducer ends with what the reducer computes as a whole.
StepsAgreeWithReduce ==
  pc \in {"done", "thrown"} => outcome = Reduce(op, files)

(***************************************************************************)
(* The pure functions applied to drawn arguments                           *)
(***************************************************************************)
Idle ==
  /\ files = <<>>
  /\ op = "none"
  /\ pc = "idle"
  /\ i = 0
  /\ resultTree = Undefined
  /\ outcome = Undefined
  /\ reads = 0

InitExtract ==
  /\ Idle
  /\ fn = "none"
  /\ args \in {<<v>> : v \in JsonValues}
  /\ ret = Undefined

ApplyEnumerateKeyTree ==
  /\ fn = "none"
  /\ Len(args) = 1
  /\ fn' = "enumerateKeyTree"
  /\ ret' = enumerateKeyTree(args[1])
  /\ UNCHANGED <<args, progVars>>

SpecExtract == InitExtract /\ [][ApplyEnumerateKeyTree]_vars

InitAlgebra ==
  /\ Idle
  /\ fn = "none"
  /\ args \in [1..3 -> Trees]
  /\ ret = Undefined

ApplyIntersectKeys ==
  /\ fn = "none"
  /\ Len(args) = 3
  /\ fn' = "intersectKeys"
  /\ ret' = intersectKeys(args[1], args[2])
  /\ UNCHANGED <<args, progVars>>

ApplyUnionKeys ==
  /\ fn = "none"
  /\ Len(args) = 3
  /\ fn' = "unionKeys"
  /\ ret' = unionKeys(args[1], args[2])
  /\ UNCHANGED <<args, progVars>>

ApplyFindUnionKeys ==
  /\ fn = "none"
  /\ Len(args) = 3
  /\ fn' = "findUnionKeys"
  /\ ret' = Reduce("union", args)
  /\ UNCHANGED <<args, progVars>>

NextAlgebra ==
  \/ ApplyIntersectKeys
  \/ ApplyUnionKeys
  \/ ApplyFindUnionKeys

SpecAlgebra == InitAlgebra /\ [][NextAlgebra]_vars

(***************************************************************************)
(* Vocabulary of the properties                                            *)
(***************************************************************************)
\* A key tree: an object whose every value is null or a key tree.
RECURSIVE IsShapeTree(_)
IsShapeTree(tree) ==
  /\ tree.t = "object"
  /\ \A k \in DOMAIN tree.m : tree.m[k] = Null \/ IsShapeTree(tree.m[k])

\* The key paths of a tree: the sequences of keys leading from its root.
RECURSIVE Paths(_)
Paths(tree) ==
  IF tree.t # "object" THEN {}
  ELSE UNION {{<<k>>} \cup {<<k>> \o p : p \in Paths(tree.m[k])} :
                k \in DOMAIN tree.m}

\* path is a key path of the document: each key on it is a key of the object
\* the document holds at that nesting level.
RECURSIVE IsKeyPath(_, _)
IsKeyPath(doc, path) ==
  /\ doc.t = "object"
  /\ Head(path) \in DOMAIN doc.m
  /\ Len(path) > 1 => IsKeyPath(doc.m[Head(path)], Tail(path))

\* tree has the keys of the object v at every level, null exactly at the
\* values that are not objects.
RECURSIVE IsShapeOf(_, _)
IsShapeOf(tree, v) ==
  /\ tree.t = "object"
  /\ DOMAIN tree.m = DOMAIN v.m
  /\ \A k \in DOMAIN v.m :
       /\ tree.m[k] = Null <=> v.m[k].t # "object"
       /\ v.m[k].t = "object" => IsShapeOf(tree.m[k], v.m[k])

\* The intersection as specified: the keys of both, the node decided by
\* first, a Leaf of second standing for the empty tree.
RECURSIVE IntersectShapes(_, _)
IntersectShapes(first, second) ==
  LET common == IF second.t = "object"
                  THEN DOMAIN first.m \cap DOMAIN second.m ELSE {}
  IN Obj([k \in common |->
            IF first.m[k].t # "object" THEN Null
            ELSE IntersectShapes(first.m[k], second.m[k])])

\* The union as specified: the keys of either, nested only where both nest.
RECURSIVE UnionShapes(_, _)
UnionShapes(first, second) ==
  Obj([k \in DOMAIN first.m \cup DOMAIN second.m |->
         IF /\ k \in DOMAIN first.m
            /\ k \in DOMAIN second.m
            /\ first.m[k].t = "object"
            /\ second.m[k].t = "object"
           THEN UnionShapes(first.m[k], second.m[k])
           ELSE Null])

SpecCombine(o, first, second) ==
  IF o = "intersect" THEN IntersectShapes(first, second)
  ELSE UnionShapes(first, second)

\* The left fold of the specified operation over the extracted shapes.
RECURSIVE SpecFold(_, _, _, _)
SpecFold(o, acc, list, n) ==
  IF n >= Len(list) THEN acc
  ELSE SpecFold(o, SpecCombine(o, acc, enumerateKeyTree(list[n + 1])), list, n + 1)

\* The left fold of the program's own combining function over the shapes.
CodeFold(o, list) ==
  Reduce(o, [k \in DOMAIN list |-> enumerateKeyTree(list[k])])

Permutations3 == {p \in [1..3 -> 1..3] : \A a, b \in 1..3 : p[a] = p[b] => a = b}

Permuted(list, p) == [k \in DOMAIN list |-> list[p[k]]]

OnlyX(v) == Obj([k \in {"x"} |-> v])

(***************************************************************************)
(* C1                                                                      *)
(***************************************************************************)
\* C1: a reducer that has finished on two or more documents ends with the
\* left fold of its operation over the extracted shapes of the documents,
\* the operation read either as specified or as the program's own function.
C1_ReducerIsFoldOfShapes ==
  (pc \in {"done", "thrown"} /\ Len(files) >= 2) =>
    \/ outcome = SpecFold(op, SpecCombine(op, enumerateKeyTree(files[1]),
                                          enumerateKeyTree(files[2])), files, 2)
    \/ outcome = CodeFold(op, files)

(***************************************************************************)
(* C2                                                                      *)
(***************************************************************************)
\* C2: unionKeys is commutative and associative, and findUnionKeys returns
\* the same tree for every order of the same three documents.
C2_UnionCommutativeAssociative ==
  Len(args) = 3 =>
    /\ unionKeys(args[1], args[2]) = unionKeys(args[2], args[1])
    /\ unionKeys(args[1], unionKeys(args[2], args[3]))
         = unionKeys(unionKeys(args[1], args[2]), args[3])
    /\ fn = "findUnionKeys" =>
         \A p \in Permutations3 : Reduce("union", Permuted(args, p)) = ret

C2_Witness ==
  /\ fn = "findUnionKeys"
  /\ args[1] # args[2] /\ args[2] # args[3] /\ args[1] # args[3]
  /\ ret.t = "object"
  /\ DOMAIN ret.m = Keys
  /\ ret.m["x"].t = "object"
  /\ ret.m["x"].m # <<>>
  /\ ret.m["0"] = Null

(***************************************************************************)
(* C3                                                                      *)
(***************************************************************************)
\* C3: for key trees first and second and a key where first nests and
\* second is a Leaf, intersectKeys(first, second) returns a tree with the
\* empty tree at that key and intersectKeys(second, first) one with a Leaf.
C3_LeafOnSecondYieldsEmptyTree ==
  (/\ fn = "intersectKeys"
   /\ IsShapeTree(args[1])
   /\ IsShapeTree(args[2])) =>
    \A k \in DOMAIN args[1].m \cap DOMAIN args[2].m :
      (args[1].m[k].t = "object" /\ args[2].m[k] = Null) =>
        /\ ret.t = "object"
        /\ ret.m[k] = EmptyObj
        /\ intersectKeys(args[2], args[1]).t = "object"
        /\ intersectKeys(args[2], args[1]).m[k] = Null

C5_EmptyListThrows ==
  (Len(files) = 0 /\ pc \notin {"idle", "entry"}) =>
    /\ pc = "thrown"
    /\ outcome = EmptyErr
    /\ reads = 0
    /\ resultTree = Undefined

C5_Witness ==
  /\ Len(files) = 0
  /\ op = "union"
  /\ pc = "thrown"
  /\ outcome = EmptyErr

(***************************************************************************)
(* C6                                                                      *)
(***************************************************************************)
\* C6: either reducer, called with a list of one document, returns the key
\* tree of that document, nesting included, after reading one file.
C6_SingleDocumentPassThrough ==
  (Len(files) = 1 /\ pc \notin {"idle", "entry"}) =>
    /\ pc = "done"
    /\ reads = 1
    /\ outcome = enumerateKeyTree(files[1])
    /\ IsShapeOf(outcome, files[1])

C6_Witness ==
  /\ Len(files) = 1
  /\ op = "union"
  /\ pc = "done"
  /\ files[1] = OnlyX(OnlyX(Nested))
  /\ outcome = OnlyX(OnlyX(OnlyX(Null)))

(***************************************************************************)
(* C7                                                                      *)
(***************************************************************************)
\* C7: unionKeys(first, second) has exactly the keys of first or second; a
\* key is null when one side lacks it or holds no object at it, and is the
\* union of the two sub-trees when both sides nest.
C7_UnionFlattens ==
  fn = "unionKeys" =>
    /\ ret.t = "object"
    /\ DOMAIN ret.m = DOMAIN args[1].m \cup DOMAIN args[2].m
    /\ ret = UnionShapes(args[1], args[2])

C7_Witness ==
  /\ fn = "unionKeys"
  /\ args[1] = OnlyX(OnlyX(Null))
  /\ args[2] = Obj([k \in {"0"} |-> Null])
  /\ ret = Obj([k \in Keys |-> Null])

(***************************************************************************)
(* C8                                                                      *)
(***************************************************************************)
\* C8: the key tree of a JSON object has the object's keys at every level
\* and null exactly where the value is not an object; arrays are leaves.
C8_ShapeOfObject ==
  (fn = "enumerateKeyTree" /\ args[1].t = "object") => IsShapeOf(ret, args[1])

C8_Witness ==
  /\ fn = "enumerateKeyTree"
  /\ args[1] = OnlyX(Arr(<<Num, Num, Nested>>))
  /\ ret = OnlyX(Null)

(***************************************************************************)
(* C9                                                                      *)
(***************************************************************************)
\* C9: enumerateKeyTree throws whenever its argument is not a JSON object.
C9_NonObjectThrows ==
  (fn = "enumerateKeyTree" /\ args[1].t # "object") => ret = TypeErr

(***************************************************************************)
(* C10                                                                     *)
(***************************************************************************)
\* C10: at every step of findIntersectingKeys over two or more documents,
\* every key path of resultTree is a key path of every document folded in.
C10_IntersectionPathsShared ==
  (op = "intersect" /\ pc \in {"loop", "done"} /\ Len(files) >= 2) =>
    \A path \in Paths(resultTree) :
      \A j \in 1..i : IsKeyPath(files[j], path)

====
